---- MODULE Spec2Model ----
(***************************************************************************)
(* Model of matrix/buffer.py of weechat-matrix: the projection of a room's *)
(* events onto a WeeChat buffer (line log, nicklist, user registry, topic) *)
(* and the in-place redaction of lines.                                    *)
(*                                                                         *)
(* Text is a sequence of chunks: literal text, a host colour code, or text *)
(* that went through the strikethrough transform.  Tags are strings.  The  *)
(* host stores the tag list it is handed (tags are joined with "," for the *)
(* call; identifiers and nicks of the model hold no comma).                *)
(***************************************************************************)
EXTENDS Integers, Sequences, FiniteSets, TLC

VARIABLES lines, users, nicklist, topic, topic_author, topic_date,
          short_name, room_users, room_name, redaction_type,
          power_levels, level, rank_prefix, group_name

vars == <<lines, users, nicklist, topic, topic_author, topic_date,
          short_name, room_users, room_name, redaction_type,
          power_levels, level, rank_prefix, group_name>>

(***************************************************************************)
(* Bounds of the model.                                                    *)
(***************************************************************************)
MaxLines == 2

MaxMemberLines == 1

MaxPower == 101

MaxTopicLines == 2

MaxNameLines == 2

MaxFrameLines == 2

(***************************************************************************)
(* Input domains.                                                          *)
(***************************************************************************)
UserIds == {"@alice:hs", "@bob:hs"}

OwnUserId == "@alice:hs"

DisplayNames == [u \in UserIds |-> IF u = "@alice:hs" THEN {"alice", "Al"} ELSE {"Al"}]

EventIds == {"e1", "e2"}

Timestamps == {1000}

TopicTimestamps == {1000, 2000}

Reasons == {"", "oops"}

Topics == {"new topic"}

RoomNames == {"#room", "#renamed"}

RedactTypes == {"STRIKETHROUGH", "NOTICE", "DELETE"}

PowerLevels == (0 - MaxPower)..MaxPower

RoomPowerLevels == {0, 1, 50, 100}

(***************************************************************************)
(* Text chunks and the host's text primitives.                             *)
(***************************************************************************)
T(s) == <<[k |-> "text", s |-> s]>>

WColor(name) == <<[k |-> "color", s |-> name]>>

TAB == <<[k |-> "tab", s |-> ""]>>

WPrefix(name) == T(name) \o TAB

WStringRemoveColor(text) == SelectSeq(text, LAMBDA c : c.k # "color")

string_strikethrough(text) ==
    [i \in 1..Len(text) |->
        IF text[i].k = "text" THEN [k |-> "strike", s |-> text[i].s] ELSE text[i]]

to_weechat(formatted) == WColor("bold") \o T(formatted) \o WColor("-bold")

NickColorName(nick) ==
    CASE nick = "alice" -> "cyan"
      [] nick = "bob"   -> "magenta"
      [] nick = "Al"    -> "green"
      [] OTHER          -> "default"

shorten_sender(sender) ==
    CASE sender = "@alice:hs" -> "alice"
      [] sender = "@bob:hs"   -> "bob"
      [] OTHER                -> sender

Now == 9

server_ts_to_weechat(timestamp) == timestamp \div 1000

SCRIPT_NAME == "matrix"

(***************************************************************************)
(* Dictionaries are functions; these are Python's d[k] = v and del d[k].   *)
(***************************************************************************)
DictSet(d, key, v) == [x \in DOMAIN d \cup {key} |-> IF x = key THEN v ELSE d[x]]

DictDel(d, key) == [x \in DOMAIN d \ {key} |-> d[x]]

EmptyDict == <<>>

(***************************************************************************)
(* WeechatUser / RoomUser.                                                 *)
(***************************************************************************)
_get_prefix_zero_is_voiced(power_level) ==
    IF power_level >= 100 THEN "&"
    ELSE IF power_level >= 50 THEN "@"
    ELSE IF power_level >= 0 THEN "+"
    ELSE ""

_get_prefix_owner_above_100(power_level) ==
    IF power_level > 100 THEN "&"
    ELSE IF power_level >= 50 THEN "@"
    ELSE IF power_level > 0 THEN "+"
    ELSE ""

_get_prefix(power_level) ==
    IF power_level >= 100 THEN "&"
    ELSE IF power_level >= 50 THEN "@"
    ELSE IF power_level > 0 THEN "+"
    ELSE ""

WeechatUser(nick, host, prefix) ==
    [nick |-> nick, host |-> host, prefix |-> prefix, color |-> NickColorName(nick)]

RoomUser(nick, user_id, power_level) == WeechatUser(nick, user_id, _get_prefix(power_level))

NoneHost == "None"

(***************************************************************************)
(* WeechatChannelBuffer: class tables.                                     *)
(***************************************************************************)
tags(message_type) ==
    CASE message_type = "message" ->
            <<SCRIPT_NAME \o "_message", "notify_message", "log1">>
      [] message_type = "self_message" ->
            <<SCRIPT_NAME \o "_message", "notify_none", "no_highlight", "self_msg", "log1">>
      [] message_type = "action" ->
            <<SCRIPT_NAME \o "_message", SCRIPT_NAME \o "_action", "notify_message", "log1">>
      [] message_type = "old_message" ->
            <<SCRIPT_NAME \o "_message", "notify_message", "no_log", "no_highlight">>
      [] message_type = "join"   -> <<SCRIPT_NAME \o "_join", "log4">>
      [] message_type = "part"   -> <<SCRIPT_NAME \o "_leave", "log4">>
      [] message_type = "kick"   -> <<SCRIPT_NAME \o "_kick", "log4">>
      [] message_type = "invite" -> <<SCRIPT_NAME \o "_invite", "log4">>
      [] message_type = "topic"  -> <<SCRIPT_NAME \o "_topic", "log3">>

membership_messages(message_type) ==
    CASE message_type = "join"   -> "has joined"
      [] message_type = "part"   -> "has left"
      [] message_type = "kick"   -> "has been kicked from"
      [] message_type = "invite" -> "has been invited to"

(***************************************************************************)
(* The host's line log: W.prnt_date_tags splits the data at the first tab  *)
(* into prefix and message and appends the line.                           *)
(***************************************************************************)
FirstTab(data) ==
    IF \E i \in 1..Len(data) : data[i].k = "tab"
    THEN CHOOSE i \in 1..Len(data) :
            data[i].k = "tab" /\ \A j \in 1..(i - 1) : data[j].k # "tab"
    ELSE 0

WPrntDateTags(b, date, tag_list, data) ==
    LET i == FirstTab(data)
        line == [date         |-> date,
                 date_printed |-> Now,
                 tags         |-> tag_list,
                 prefix       |-> IF i = 0 THEN <<>> ELSE SubSeq(data, 1, i - 1),
                 message      |-> SubSeq(data, i + 1, Len(data))]
    IN  [b EXCEPT !.lines = Append(@, line)]

print_date_tags(b, data, date, tag_list) ==
    WPrntDateTags(b, IF date = 0 THEN Now ELSE date, tag_list, data)

ConfigNickSelf == "white"

_color_for_tags(color) ==
    IF color = "weechat.color.chat_nick_self" THEN ConfigNickSelf ELSE color

_message_tags(user, message_type) ==
    tags(message_type)
        \o << "nick_" \o user.nick >>
        \o (IF message_type # "action"
            THEN << "prefix_nick_" \o _color_for_tags(user.color) >>
            ELSE <<>>)

_get_user(b, nick) ==
    IF nick \in DOMAIN b.users THEN b.users[nick] ELSE RoomUser(nick, NoneHost, 0)

_get_prefix_color(prefix) ==
    IF prefix = "&" THEN "lightgreen"
    ELSE IF prefix = "@" THEN "lightgreen"
    ELSE IF prefix = "+" THEN "yellow"
    ELSE ""

PrefixString(user) ==
    IF user.prefix = "" THEN <<>>
    ELSE WColor(_get_prefix_color(user.prefix)) \o T(user.prefix) \o WColor("reset")

_print_message(b, user, message, date, tag_list) ==
    LET data == PrefixString(user) \o WColor(user.color) \o T(user.nick)
                    \o WColor("reset") \o TAB \o message
    IN  print_date_tags(b, data, date, tag_list)

message(b, nick, msg, date, extra_tags) ==
    LET user == _get_user(b, nick)
    IN  _print_message(b, user, msg, date, _message_tags(user, "message") \o extra_tags)

_print_action(b, user, msg, date, tag_list) ==
    LET data == WPrefix("action") \o PrefixString(user) \o WColor(user.color)
                    \o T(user.nick) \o WColor("reset") \o T(" ") \o msg
    IN  print_date_tags(b, data, date, tag_list)

action(b, nick, msg, date, extra_tags) ==
    LET user == _get_user(b, nick)
    IN  _print_action(b, user, msg, date, _message_tags(user, "action") \o extra_tags)

(***************************************************************************)
(* Python's comparison of the rank prefixes as strings (code points; the   *)
(* empty string is smaller than any other).                                *)
(***************************************************************************)
Ord(s) ==
    CASE s = ""  -> 0
      [] s = "&" -> 38
      [] s = "+" -> 43
      [] s = "@" -> 64

StrGreater(a, b) == Ord(a) > Ord(b)

_get_nicklist_group(user) ==
    IF user.prefix = "&" THEN "000|o"
    ELSE IF user.prefix = "@" THEN "001|h"
    ELSE IF StrGreater(user.prefix, "+") THEN "002|v"
    ELSE "999|..."

_add_user_to_nicklist(b, user) ==
    IF user.nick \in DOMAIN b.nicklist
    THEN b
    ELSE [b EXCEPT !.nicklist =
            DictSet(@, user.nick,
                    [group        |-> _get_nicklist_group(user),
                     color        |-> user.color,
                     prefix       |-> IF user.prefix # "" THEN user.prefix ELSE " ",
                     prefix_color |-> _get_prefix_color(user.prefix)])]

_membership_message(b, user, message_type) ==
    LET action_color == IF message_type = "join" \/ message_type = "invite"
                        THEN "green" ELSE "red"
        prefix == IF message_type = "join" \/ message_type = "invite"
                  THEN "join" ELSE "quit"
    IN  WPrefix(prefix) \o WColor(user.color) \o T(user.nick) \o WColor("reset")
            \o T(" ") \o WColor("chat_delimiters") \o T("(") \o WColor("chat_host")
            \o T(user.host) \o WColor("chat_delimiters") \o T(")")
            \o WColor(action_color) \o T(" ") \o T(membership_messages(message_type))
            \o T(" ") \o WColor("chat_channel") \o T(b.short_name) \o WColor("reset")

join_always_prints(b, user, date, with_message) ==
    LET b1 == _add_user_to_nicklist(b, user)
        b2 == [b1 EXCEPT !.users = DictSet(@, user.nick, user)]
    IN  print_date_tags(b2, _membership_message(b2, user, "join"), date,
                        _message_tags(user, "join"))

join(b, user, date, with_message) ==
    LET b1 == _add_user_to_nicklist(b, user)
        b2 == [b1 EXCEPT !.users = DictSet(@, user.nick, user)]
    IN  IF with_message
        THEN print_date_tags(b2, _membership_message(b2, user, "join"), date,
                             _message_tags(user, "join"))
        ELSE b2

invite(b, nick, date, extra_tags) ==
    LET user == _get_user(b, nick)
    IN  print_date_tags(b, _membership_message(b, user, "invite"), date,
                        _message_tags(user, "invite") \o extra_tags)

_remove_user_from_nicklist_never(b, user) == b

_remove_user_from_nicklist(b, user) ==
    IF user.nick \in DOMAIN b.nicklist
    THEN [b EXCEPT !.nicklist = DictDel(@, user.nick)]
    ELSE b

_leave_forgets_when_silent(b, nick, date, with_message, leave_type, extra_tags) ==
    LET user == _get_user(b, nick)
        b1 == _remove_user_from_nicklist(b, user)
    IN  IF with_message
        THEN LET b2 == print_date_tags(b1, _membership_message(b1, user, leave_type), date,
                                       _message_tags(user, leave_type) \o extra_tags)
             IN  IF user.nick \in DOMAIN b2.users
                 THEN [b2 EXCEPT !.users = DictDel(@, user.nick)]
                 ELSE b2
        ELSE b1

_leave_registers_unknown(b, nick, date, with_message, leave_type, extra_tags) ==
    LET user == _get_user(b, nick)
        b1 == _remove_user_from_nicklist(b, user)
        b2 == IF with_message
              THEN print_date_tags(b1, _membership_message(b1, user, leave_type), date,
                                   _message_tags(user, leave_type) \o extra_tags)
              ELSE b1
    IN  IF user.nick \in DOMAIN b2.users
        THEN [b2 EXCEPT !.users = DictDel(@, user.nick)]
        ELSE [b2 EXCEPT !.users = DictSet(@, user.nick, user)]

_leave(b, nick, date, with_message, leave_type, extra_tags) ==
    LET user == _get_user(b, nick)
        b1 == _remove_user_from_nicklist(b, user)
        b2 == IF with_message
              THEN print_date_tags(b1, _membership_message(b1, user, leave_type), date,
                                   _message_tags(user, leave_type) \o extra_tags)
              ELSE b1
    IN  IF user.nick \in DOMAIN b2.users
        THEN [b2 EXCEPT !.users = DictDel(@, user.nick)]
        ELSE b2

part(b, nick, date, with_message, extra_tags) ==
    _leave(b, nick, date, with_message, "part", extra_tags)

kick(b, nick, date, with_message, extra_tags) ==
    _leave(b, nick, date, with_message, "kick", <<>>)

_print_topic(b, nick, new_topic, date) ==
    LET user == _get_user(b, nick)
        data == WPrefix("network") \o T(user.nick) \o T(" has changed the topic for ")
                    \o WColor("chat_channel") \o T(b.short_name) \o WColor("reset")
                    \o T(" to \"") \o T(new_topic) \o T("\"")
    IN  print_date_tags(b, data, date, _message_tags(user, "topic"))

change_topic_only_with_message(b, nick, new_topic, date, with_message) ==
    IF with_message
    THEN [_print_topic(b, nick, new_topic, date)
            EXCEPT !.topic = new_topic, !.topic_author = nick, !.topic_date = date]
    ELSE b

change_topic(b, nick, new_topic, date, with_message) ==
    LET b1 == IF with_message THEN _print_topic(b, nick, new_topic, date) ELSE b
    IN  [b1 EXCEPT !.topic = new_topic, !.topic_author = nick, !.topic_date = date]

buffer_self_message(b, nick, msg, date) ==
    LET user == _get_user(b, nick)
    IN  _print_message(b, user, msg, date, _message_tags(user, "self_message"))

buffer_self_action(b, nick, msg, date) ==
    LET user == _get_user(b, nick)
    IN  _print_action(b, user, msg, date,
                      Append(_message_tags(user, "self_message"), SCRIPT_NAME \o "_action"))

(***************************************************************************)
(* WeechatChannelBuffer.lines yields the lines from the last to the first; *)
(* find_lines keeps that order.  A found line is the index into the log;   *)
(* the predicate is given as its value on each line of the log.            *)
(***************************************************************************)
LinesIterOldestFirst(b) == [i \in 1..Len(b.lines) |-> i]

LinesIter(b) == [i \in 1..Len(b.lines) |-> Len(b.lines) + 1 - i]

find_lines(b, predicate) == SelectSeq(LinesIter(b), LAMBDA i : predicate[i])

InSeq(x, s) == \E i \in 1..Len(s) : s[i] = x

(***************************************************************************)
(* RoomBuffer.  A handler maps the state record to the state record after  *)
(* it; an uncaught KeyError leaves the state as it was and sets raised.    *)
(***************************************************************************)
Raise(st) == [st EXCEPT !.raised = TRUE]

IsInstance(event, types) == event.type \in types

RoomMembershipEvent == {"RoomMemberJoin", "RoomMemberLeave", "RoomMemberInvite"}

Truthy(prev_content) == ~prev_content.none /\ DOMAIN prev_content.dict # {}

membership_join(st, event, date, is_state) ==
    IF event.sender \notin DOMAIN st.room_users
    THEN Raise(st)
    ELSE LET user == st.room_users[event.sender]
             new_user == RoomUser(user.name, event.sender, 0)
             buffer_user == IF OwnUserId = event.sender
                            THEN [new_user EXCEPT !.color = "weechat.color.chat_nick_self"]
                            ELSE new_user
             st1 == [st EXCEPT !.room_users[event.sender].nick_color = buffer_user.color]
         IN  join(st1, buffer_user, server_ts_to_weechat(event.timestamp), ~is_state)

UpdateShortName(st) ==
    IF st.raised THEN st ELSE [st EXCEPT !.short_name = st.room_name]

handle_membership_events_any_previous(st, event, is_state) ==
    LET date == server_ts_to_weechat(event.timestamp)
    IN  IF IsInstance(event, {"RoomMemberJoin"})
        THEN UpdateShortName(membership_join(st, event, date, is_state))
        ELSE IF IsInstance(event, {"RoomMemberLeave"})
        THEN LET nick == shorten_sender(event.sender)
             IN  IF event.sender = event.leaving_user
                 THEN UpdateShortName(part(st, nick, date, ~is_state, <<>>))
                 ELSE UpdateShortName(kick(st, nick, date, ~is_state, <<>>))
        ELSE IF IsInstance(event, {"RoomMemberInvite"})
        THEN IF is_state
             THEN st
             ELSE invite(st, event.invited_user, date, <<>>)
        ELSE UpdateShortName(st)

handle_membership_events(st, event, is_state) ==
    LET date == server_ts_to_weechat(event.timestamp)
    IN  IF IsInstance(event, {"RoomMemberJoin"})
        THEN IF Truthy(event.prev_content) /\ "membership" \in DOMAIN event.prev_content.dict
             THEN IF event.prev_content.dict["membership"] = "leave"
                        \/ event.prev_content.dict["membership"] = "invite"
                  THEN UpdateShortName(membership_join(st, event, date, is_state))
                  ELSE st
             ELSE UpdateShortName(membership_join(st, event, date, is_state))
        ELSE IF IsInstance(event, {"RoomMemberLeave"})
        THEN LET nick == shorten_sender(event.sender)
             IN  IF event.sender = event.leaving_user
                 THEN UpdateShortName(part(st, nick, date, ~is_state, <<>>))
                 ELSE UpdateShortName(kick(st, nick, date, ~is_state, <<>>))
        ELSE IF IsInstance(event, {"RoomMemberInvite"})
        THEN IF is_state
             THEN st
             ELSE invite(st, event.invited_user, date, <<>>)
        ELSE UpdateShortName(st)

already_redacted_never(tag_list) == FALSE

already_redacted(tag_list) == InSeq(SCRIPT_NAME \o "_redacted", tag_list)

redact_predicate_any_line(event_id, line) == ~already_redacted(line.tags)

redact_predicate(event_id, line) ==
    LET event_tag == SCRIPT_NAME \o "_id_" \o event_id
    IN  InSeq(event_tag, line.tags) /\ ~already_redacted(line.tags)

ReasonText(reason) ==
    IF reason = "" THEN <<>> ELSE T(", reason: \"") \o T(reason) \o T("\"")

RedactionMsg(censor, reason) ==
    WColor("chat_delimiters") \o T("<") \o WColor("logger.color.backlog_line")
        \o T("Message redacted by: ") \o T(censor)
        \o WColor("logger.color.backlog_line") \o ReasonText(reason)
        \o WColor("chat_delimiters") \o T(">") \o WColor("reset")

JoinNonEmpty(new_message, redaction_msg) ==
    IF new_message = <<>> THEN redaction_msg
    ELSE IF redaction_msg = <<>> THEN new_message
    ELSE new_message \o T(" ") \o redaction_msg

RedactedText(old_message, policy) ==
    IF policy = "STRIKETHROUGH" THEN string_strikethrough(WStringRemoveColor(old_message))
    ELSE IF policy = "NOTICE" THEN old_message
    ELSE <<>>

RewriteLine(st, event, i) ==
    IF event.sender \notin DOMAIN st.room_users
    THEN Raise(st)
    ELSE LET censor == st.room_users[event.sender].name
             new_message == RedactedText(st.lines[i].message, redaction_type)
             new_tags == Append(st.lines[i].tags, "matrix_redacted")
         IN  [st EXCEPT !.lines[i].message =
                            JoinNonEmpty(new_message, RedactionMsg(censor, event.reason)),
                        !.lines[i].tags = new_tags]

_redact_line_censor_first(st, event) ==
    LET found == find_lines(st, [n \in 1..Len(st.lines) |->
                                    redact_predicate(event.redaction_id, st.lines[n])])
    IN  IF event.sender \notin DOMAIN st.room_users THEN Raise(st)
        ELSE IF found = <<>> THEN st ELSE RewriteLine(st, event, found[1])

_redact_line(st, event) ==
    LET found == find_lines(st, [n \in 1..Len(st.lines) |->
                                    redact_predicate(event.redaction_id, st.lines[n])])
    IN  IF found = <<>> THEN st ELSE RewriteLine(st, event, found[1])

get_event_tags_both(event) == << "matrix_id_" \o event.event_id, "matrix_id_" \o "e1" >>

get_event_tags(event) == << "matrix_id_" \o event.event_id >>

_handle_redacted_message(st, event) ==
    IF event.sender \notin DOMAIN st.room_users \/ event.censor \notin DOMAIN st.room_users
    THEN Raise(st)
    ELSE LET user == st.room_users[event.sender]
             censor == st.room_users[event.censor]
         IN  message(st, user.name, RedactionMsg(censor.name, event.reason),
                     server_ts_to_weechat(event.timestamp),
                     Append(get_event_tags(event), SCRIPT_NAME \o "_redacted"))

_handle_topic(st, event, is_state) ==
    LET nick == IF event.sender \in DOMAIN st.room_users
                THEN st.room_users[event.sender].name
                ELSE event.sender
    IN  change_topic(st, nick, event.topic, server_ts_to_weechat(event.timestamp), ~is_state)

handle_state_event(st, event) ==
    IF IsInstance(event, RoomMembershipEvent) THEN handle_membership_events(st, event, TRUE)
    ELSE IF IsInstance(event, {"RoomTopicEvent"}) THEN _handle_topic(st, event, TRUE)
    ELSE st

MessageData(event) ==
    IF event.formatted_message # "" THEN to_weechat(event.formatted_message)
    ELSE T(event.message)

handle_timeline_event(st, event) ==
    IF IsInstance(event, RoomMembershipEvent) THEN handle_membership_events(st, event, FALSE)
    ELSE IF IsInstance(event, {"RoomNameEvent", "RoomAliasEvent"})
    THEN [st EXCEPT !.short_name = st.room_name]
    ELSE IF IsInstance(event, {"RoomTopicEvent"}) THEN _handle_topic(st, event, FALSE)
    ELSE IF IsInstance(event, {"RoomMessageText"})
    THEN IF event.sender \notin DOMAIN st.room_users
         THEN Raise(st)
         ELSE message(st, st.room_users[event.sender].name, MessageData(event),
                      server_ts_to_weechat(event.timestamp), get_event_tags(event))
    ELSE IF IsInstance(event, {"RoomMessageEmote"})
    THEN IF event.sender \notin DOMAIN st.room_users
         THEN Raise(st)
         ELSE action(st, st.room_users[event.sender].name, T(event.message),
                     server_ts_to_weechat(event.timestamp), get_event_tags(event))
    ELSE IF IsInstance(event, {"RoomRedactionEvent"}) THEN _redact_line(st, event)
    ELSE IF IsInstance(event, {"RoomRedactedMessageEvent"})
    THEN _handle_redacted_message(st, event)
    ELSE st

self_message(st, msg) ==
    IF OwnUserId \notin DOMAIN st.room_users
    THEN Raise(st)
    ELSE buffer_self_message(st, st.room_users[OwnUserId].name, MessageData(msg),
                             server_ts_to_weechat(msg.timestamp))

self_action(st, msg) ==
    IF OwnUserId \notin DOMAIN st.room_users
    THEN Raise(st)
    ELSE buffer_self_action(st, st.room_users[OwnUserId].name, T(msg.message),
                            server_ts_to_weechat(msg.timestamp))

(***************************************************************************)
(* The room object (matrix/rooms.py) handles an event before the buffer    *)
(* does: it keeps the table of joined users and the room's display name.   *)
(***************************************************************************)
RoomHandleEvent(st, event) ==
    IF IsInstance(event, {"RoomMemberJoin"})
    THEN [st EXCEPT !.room_users =
            DictSet(@, event.sender,
                    [name       |-> event.display_name,
                     nick_color |-> IF event.sender \in DOMAIN @
                                    THEN @[event.sender].nick_color ELSE ""])]
    ELSE IF IsInstance(event, {"RoomMemberLeave"})
    THEN [st EXCEPT !.room_users = DictDel(@, event.leaving_user)]
    ELSE IF IsInstance(event, {"RoomNameEvent", "RoomAliasEvent"})
    THEN [st EXCEPT !.room_name = event.name]
    ELSE st

(***************************************************************************)
(* Events.                                                                 *)
(***************************************************************************)
NoContent == [none |-> TRUE, dict |-> EmptyDict]

Content(d) == [none |-> FALSE, dict |-> d]

PrevContents ==
    {NoContent, Content(EmptyDict), Content([avatar_url |-> "mxc"])}
        \cup {Content([membership |-> m]) : m \in {"leave", "invite", "join"}}

JoinEvents ==
    UNION {[type : {"RoomMemberJoin"}, sender : {u}, display_name : DisplayNames[u],
            timestamp : Timestamps, prev_content : PrevContents] : u \in UserIds}

LeaveEvents ==
    [type : {"RoomMemberLeave"}, sender : UserIds, leaving_user : UserIds,
     timestamp : Timestamps]

InviteEvents ==
    [type : {"RoomMemberInvite"}, sender : UserIds, invited_user : UserIds,
     timestamp : Timestamps]

TopicEvents ==
    [type : {"RoomTopicEvent"}, sender : UserIds, topic : Topics, timestamp : TopicTimestamps]

NameEvents == [type : {"RoomNameEvent", "RoomAliasEvent"}, name : RoomNames]

Bodies == {"hi"}

FormattedBodies == {"", "hi"}

TextEvents ==
    [type : {"RoomMessageText"}, sender : UserIds, event_id : EventIds,
     message : Bodies, formatted_message : FormattedBodies, timestamp : Timestamps]

EmoteEvents ==
    [type : {"RoomMessageEmote"}, sender : UserIds, event_id : EventIds,
     message : Bodies, formatted_message : FormattedBodies, timestamp : Timestamps]

RedactionEvents ==
    [type : {"RoomRedactionEvent"}, sender : UserIds, redaction_id : EventIds,
     reason : Reasons]

RedactedMessageEvents ==
    [type : {"RoomRedactedMessageEvent"}, sender : UserIds, event_id : EventIds,
     censor : UserIds, reason : Reasons, timestamp : Timestamps]

OwnMessages ==
    [message : Bodies, formatted_message : FormattedBodies, timestamp : Timestamps]

MembershipEvents == JoinEvents \cup LeaveEvents \cup InviteEvents

(***************************************************************************)
(* The state machine.                                                      *)
(***************************************************************************)
RoomId == "!room:hs"

NoneDate == 0

Cur ==
    [lines |-> lines, users |-> users, nicklist |-> nicklist, topic |-> topic,
     topic_author |-> topic_author, topic_date |-> topic_date,
     short_name |-> short_name, room_users |-> room_users, room_name |-> room_name,
     raised |-> FALSE]

NoPowerLevels == [u \in UserIds |-> 0]

Unset == "unset"

NotCalled ==
    /\ level = 0
    /\ rank_prefix = Unset
    /\ group_name = Unset

Init ==
    /\ lines = <<>>
    /\ users = EmptyDict
    /\ nicklist = EmptyDict
    /\ topic = ""
    /\ topic_author = ""
    /\ topic_date = NoneDate
    /\ short_name = RoomId
    /\ room_users = EmptyDict
    /\ room_name = "#room"
    /\ redaction_type \in RedactTypes
    /\ power_levels = NoPowerLevels
    /\ NotCalled

Commit(st, max_lines) ==
    /\ Len(st.lines) <= max_lines
    /\ lines' = st.lines
    /\ users' = st.users
    /\ nicklist' = st.nicklist
    /\ topic' = st.topic
    /\ topic_author' = st.topic_author
    /\ topic_date' = st.topic_date
    /\ short_name' = st.short_name
    /\ room_users' = st.room_users
    /\ room_name' = st.room_name
    /\ UNCHANGED <<redaction_type, power_levels, level, rank_prefix, group_name>>

Entering(st) == [st EXCEPT !.raised = FALSE]

State(st, event) == handle_state_event(RoomHandleEvent(Entering(st), event), event)

Timeline(st, event) == handle_timeline_event(RoomHandleEvent(Entering(st), event), event)

StateStep(event) == State(Cur, event)

TimelineStep(event) == Timeline(Cur, event)

(***************************************************************************)
(* Spec: the message and redaction events, over a room table that silent   *)
(* (state-replay) joins and leaves fill and empty, with topic changes and  *)
(* the user's own messages as the lines that carry no event identifier.    *)
(***************************************************************************)
PlainJoins ==
    {e \in JoinEvents : e.prev_content = NoContent
                        /\ e.display_name = (IF e.sender = OwnUserId THEN "alice" ELSE "Al")}

SelfLeaves == {e \in LeaveEvents : e.sender = e.leaving_user}

StateJoin == \E event \in PlainJoins : Commit(StateStep(event), MaxLines)

StateLeave == \E event \in SelfLeaves : Commit(StateStep(event), MaxLines)

SpecTexts == {e \in TextEvents : e.sender = OwnUserId}

SpecEmotes == {e \in EmoteEvents : e.sender # OwnUserId}

SpecPlaceholders ==
    {e \in RedactedMessageEvents :
        e.sender # OwnUserId /\ e.censor = OwnUserId /\ e.reason = "oops"}

SpecRedactions ==
    {e \in RedactionEvents : (e.sender = OwnUserId) <=> (e.reason = "oops")}

SpecOwnMessages == {m \in OwnMessages : m.formatted_message = ""}

TimelineText == \E event \in SpecTexts : Commit(TimelineStep(event), MaxLines)

TimelineEmote == \E event \in SpecEmotes : Commit(TimelineStep(event), MaxLines)

TimelineRedaction == \E event \in SpecRedactions : Commit(TimelineStep(event), MaxLines)

TimelineRedactedMessage == \E event \in SpecPlaceholders : Commit(TimelineStep(event), MaxLines)

SelfMessage == \E msg \in SpecOwnMessages : Commit(self_message(Cur, msg), MaxLines)

Next ==
    \/ StateJoin
    \/ StateLeave
    \/ TimelineText
    \/ TimelineEmote
    \/ TimelineRedaction
    \/ TimelineRedactedMessage
    \/ SelfMessage

Spec == Init /\ [][Next]_vars

(***************************************************************************)
(* SpecMembership: the membership events, in state replay and in the       *)
(* timeline.                                                               *)
(***************************************************************************)
MemberStateJoin == \E event \in JoinEvents : Commit(StateStep(event), MaxMemberLines)

MemberStateLeave == \E event \in LeaveEvents : Commit(StateStep(event), MaxMemberLines)

MemberStateInvite == \E event \in InviteEvents : Commit(StateStep(event), MaxMemberLines)

MemberTimelineJoin == \E event \in JoinEvents : Commit(TimelineStep(event), MaxMemberLines)

MemberTimelineLeave == \E event \in LeaveEvents : Commit(TimelineStep(event), MaxMemberLines)

MemberTimelineInvite == \E event \in InviteEvents : Commit(TimelineStep(event), MaxMemberLines)

NextMembership ==
    \/ MemberStateJoin
    \/ MemberStateLeave
    \/ MemberStateInvite
    \/ MemberTimelineJoin
    \/ MemberTimelineLeave
    \/ MemberTimelineInvite

SpecMembership == Init /\ [][NextMembership]_vars

(***************************************************************************)
(* SpecRank: the rank prefix of a power level and the nicklist group of a  *)
(* user of that rank, each computed once for every power level of the      *)
(* range.                                                                  *)
(***************************************************************************)
EmptyRoom ==
    /\ lines = <<>>
    /\ users = EmptyDict
    /\ nicklist = EmptyDict
    /\ topic = ""
    /\ topic_author = ""
    /\ topic_date = NoneDate
    /\ short_name = RoomId
    /\ room_users = EmptyDict
    /\ room_name = "#room"
    /\ redaction_type = "STRIKETHROUGH"

InitRank ==
    /\ EmptyRoom
    /\ power_levels = NoPowerLevels
    /\ level \in PowerLevels
    /\ rank_prefix = Unset
    /\ group_name = Unset

GetPrefix ==
    /\ rank_prefix = Unset
    /\ rank_prefix' = _get_prefix(level)
    /\ UNCHANGED <<lines, users, nicklist, topic, topic_author, topic_date, short_name,
                   room_users, room_name, redaction_type, power_levels, level, group_name>>

GetNicklistGroup ==
    /\ rank_prefix # Unset
    /\ group_name = Unset
    /\ group_name' = _get_nicklist_group(RoomUser("Al", NoneHost, level))
    /\ UNCHANGED <<lines, users, nicklist, topic, topic_author, topic_date, short_name,
                   room_users, room_name, redaction_type, power_levels, level, rank_prefix>>

NextRank ==
    \/ GetPrefix
    \/ GetNicklistGroup

SpecRank == InitRank /\ [][NextRank]_vars

(***************************************************************************)
(* SpecTopic: the topic events, in state replay and in the timeline, over  *)
(* a room table that silent joins and leaves fill and empty.               *)
(***************************************************************************)
InitTopic ==
    /\ EmptyRoom
    /\ power_levels = NoPowerLevels
    /\ NotCalled

TopicStateJoin == \E event \in PlainJoins : Commit(StateStep(event), MaxTopicLines)

TopicStateLeave == \E event \in SelfLeaves : Commit(StateStep(event), MaxTopicLines)

StateTopic == \E event \in TopicEvents : Commit(StateStep(event), MaxTopicLines)

TimelineTopic == \E event \in TopicEvents : Commit(TimelineStep(event), MaxTopicLines)

NextTopic ==
    \/ TopicStateJoin
    \/ TopicStateLeave
    \/ StateTopic
    \/ TimelineTopic

SpecTopic == InitTopic /\ [][NextTopic]_vars

(***************************************************************************)
(* SpecRoster: state-replay joins and leaves in a room whose users have    *)
(* power levels.                                                           *)
(***************************************************************************)
InitRoster ==
    /\ EmptyRoom
    /\ power_levels \in [UserIds -> RoomPowerLevels]
    /\ NotCalled

RosterStateJoin == \E event \in JoinEvents : Commit(StateStep(event), MaxLines)

RosterStateLeave == \E event \in LeaveEvents : Commit(StateStep(event), MaxLines)

NextRoster ==
    \/ RosterStateJoin
    \/ RosterStateLeave

SpecRoster == InitRoster /\ [][NextRoster]_vars

(***************************************************************************)
(* SpecName: the name and alias events of the room, in state replay and in *)
(* the timeline, with joins and leaves as the events that print the short  *)
(* name.                                                                   *)
(***************************************************************************)
InitName ==
    /\ EmptyRoom
    /\ power_levels = NoPowerLevels
    /\ NotCalled

NameStateJoin == \E event \in PlainJoins : Commit(StateStep(event), MaxNameLines)

NameTimelineJoin == \E event \in PlainJoins : Commit(TimelineStep(event), MaxNameLines)

NameTimelineLeave == \E event \in SelfLeaves : Commit(TimelineStep(event), MaxNameLines)

StateName == \E event \in NameEvents : Commit(StateStep(event), MaxNameLines)

TimelineName == \E event \in NameEvents : Commit(TimelineStep(event), MaxNameLines)

NextName ==
    \/ NameStateJoin
    \/ NameTimelineJoin
    \/ NameTimelineLeave
    \/ StateName
    \/ TimelineName

SpecName == InitName /\ [][NextName]_vars

(***************************************************************************)
(* SpecFrame: redactions over a log that holds the lines of membership     *)
(* events, topic changes and the user's own messages next to the lines of  *)
(* message events.                                                         *)
(***************************************************************************)
FrameTopics == {e \in TopicEvents : e.timestamp = 1000}

FrameStateJoin == \E event \in PlainJoins : Commit(StateStep(event), MaxFrameLines)

FrameTimelineJoin == \E event \in PlainJoins : Commit(TimelineStep(event), MaxFrameLines)

FrameTimelineLeave == \E event \in LeaveEvents : Commit(TimelineStep(event), MaxFrameLines)

FrameTimelineInvite == \E event \in InviteEvents : Commit(TimelineStep(event), MaxFrameLines)

FrameTimelineTopic == \E event \in FrameTopics : Commit(TimelineStep(event), MaxFrameLines)

FrameSelfMessage == \E msg \in SpecOwnMessages : Commit(self_message(Cur, msg), MaxFrameLines)

FrameSelfAction == \E msg \in SpecOwnMessages : Commit(self_action(Cur, msg), MaxFrameLines)

FrameTimelineEmote == \E event \in SpecEmotes : Commit(TimelineStep(event), MaxFrameLines)

FrameTimelineRedaction ==
    \E event \in SpecRedactions : Commit(TimelineStep(event), MaxFrameLines)

NextFrame ==
    \/ FrameStateJoin
    \/ FrameTimelineJoin
    \/ FrameTimelineLeave
    \/ FrameTimelineInvite
    \/ FrameTimelineTopic
    \/ FrameSelfMessage
    \/ FrameSelfAction
    \/ FrameTimelineEmote
    \/ FrameTimelineRedaction

SpecFrame == Init /\ [][NextFrame]_vars

(***************************************************************************)
(* Vocabulary of the properties.                                           *)
(***************************************************************************)
TimelineEvents ==
    MembershipEvents \cup NameEvents \cup TopicEvents \cup TextEvents \cup EmoteEvents
        \cup RedactionEvents \cup RedactedMessageEvents

StateEvents == MembershipEvents \cup NameEvents \cup TopicEvents

RedactedMarker == "matrix_redacted"

CorrelationTag(id) == "matrix_id_" \o id

CorrelationTags == {CorrelationTag(id) : id \in EventIds}

Count(x, seq) == Cardinality({i \in 1..Len(seq) : seq[i] = x})

IsRedacted(line) == InSeq(RedactedMarker, line.tags)

Matches(line, id) == InSeq(CorrelationTag(id), line.tags) /\ ~IsRedacted(line)

HasTarget(ls, id) == \E i \in 1..Len(ls) : Matches(ls[i], id)

Target(ls, id) ==
    CHOOSE i \in 1..Len(ls) : Matches(ls[i], id) /\ \A j \in (i + 1)..Len(ls) : ~Matches(ls[j], id)

TextAndTags(ls) == [i \in 1..Len(ls) |-> <<ls[i].message, ls[i].tags>>]

StartsWith(text, head) == Len(text) >= Len(head) /\ SubSeq(text, 1, Len(head)) = head

EndsWith(text, end) ==
    Len(text) >= Len(end) /\ SubSeq(text, Len(text) - Len(end) + 1, Len(text)) = end

(***************************************************************************)
(* C1 (as claimed): once a redaction with target T has been applied, a     *)
(* second redaction with the same target T, the same event or another one, *)
(* leaves the message and the tags of every line unchanged.                *)
(***************************************************************************)
C1_SecondRedactionIsNoOp ==
    \A e1 \in RedactionEvents : \A e2 \in RedactionEvents :
        LET once == Timeline(Cur, e1)
            twice == Timeline(once, e2)
        IN  (e1.redaction_id = e2.redaction_id /\ ~once.raised /\ HasTarget(lines, e1.redaction_id))
                => TextAndTags(twice.lines) = TextAndTags(once.lines)

(***************************************************************************)
(* C2: a line that carries the redacted marker carries it once, and no     *)
(* event of any kind, in state replay or in the timeline, nor a message of *)
(* the user's own, changes its message or its tags.                        *)
(***************************************************************************)
KeepsRedactedLines(s) ==
    /\ Len(s.lines) >= Len(lines)
    /\ \A i \in 1..Len(lines) :
            IsRedacted(lines[i]) =>
                /\ s.lines[i].message = lines[i].message
                /\ s.lines[i].tags = lines[i].tags

C2_RedactedLineIsFinal ==
    /\ \A i \in 1..Len(lines) :
            IsRedacted(lines[i]) => Count(RedactedMarker, lines[i].tags) = 1
    /\ (\E i \in 1..Len(lines) : IsRedacted(lines[i])) =>
            /\ \A e \in TimelineEvents : KeepsRedactedLines(Timeline(Cur, e))
            /\ \A e \in StateEvents : KeepsRedactedLines(State(Cur, e))
            /\ \A m \in OwnMessages :
                    /\ KeepsRedactedLines(self_message(Cur, m))
                    /\ KeepsRedactedLines(self_action(Cur, m))

C2_Witness ==
    /\ redaction_type = "NOTICE"
    /\ \E i \in 1..Len(lines) : \E j \in 1..Len(lines) :
        /\ i # j
        /\ IsRedacted(lines[i]) /\ StartsWith(lines[i].message, T("hi"))
        /\ IsRedacted(lines[j]) /\ lines[j].message = RedactionMsg("alice", "oops")
        /\ InSeq(CorrelationTag("e1"), lines[i].tags)
        /\ "@alice:hs" \in DOMAIN room_users

(***************************************************************************)
(* C3 (as claimed): a redaction that finds a target line with body m       *)
(* leaves that line with the notice alone (Delete), m followed by the      *)
(* notice (Notice), or the struck-through m without its formatting         *)
(* followed by the notice (Strikethrough), and with the redacted marker    *)
(* added to its tags.                                                      *)
(***************************************************************************)
Notice(st, event) ==
    RedactionMsg(IF event.sender \in DOMAIN st.room_users
                 THEN st.room_users[event.sender].name ELSE event.sender,
                 event.reason)

PolicyResult(m, note) ==
    CASE redaction_type = "DELETE" -> note
      [] redaction_type = "NOTICE" -> m \o T(" ") \o note
      [] redaction_type = "STRIKETHROUGH" ->
            string_strikethrough(WStringRemoveColor(m)) \o T(" ") \o note

C3_PolicyResult ==
    \A e \in RedactionEvents :
        HasTarget(lines, e.redaction_id) =>
            LET i == Target(lines, e.redaction_id)
                s == Timeline(Cur, e)
            IN  /\ s.lines[i].message = PolicyResult(lines[i].message, Notice(s, e))
                /\ s.lines[i].tags = Append(lines[i].tags, RedactedMarker)

(***************************************************************************)
(* C3 where the code completes: with the censor in the room's user table   *)
(* the policy result is as claimed.                                        *)
(***************************************************************************)
C3_PolicyResultCensorPresent ==
    \A e \in RedactionEvents :
        (HasTarget(lines, e.redaction_id) /\ e.sender \in DOMAIN room_users) =>
            LET i == Target(lines, e.redaction_id)
                s == Timeline(Cur, e)
            IN  /\ ~s.raised
                /\ s.lines[i].message = PolicyResult(lines[i].message, Notice(s, e))
                /\ s.lines[i].tags = Append(lines[i].tags, RedactedMarker)

(***************************************************************************)
(* C4: a redaction changes at most one line, the most recently appended    *)
(* one that carries the target's correlation tag and no redacted marker;   *)
(* every other line is as it was, and so are the number and the order of   *)
(* the lines and the changed line's prefix and timestamps.                 *)
(***************************************************************************)
C4_RedactionTouchesOneLine ==
    \A e \in RedactionEvents :
        LET s == Timeline(Cur, e)
        IN  /\ Len(s.lines) = Len(lines)
            /\ \A j \in 1..Len(lines) :
                    \/ s.lines[j] = lines[j]
                    \/ /\ HasTarget(lines, e.redaction_id)
                       /\ j = Target(lines, e.redaction_id)
                       /\ s.lines[j].prefix = lines[j].prefix
                       /\ s.lines[j].date = lines[j].date
                       /\ s.lines[j].date_printed = lines[j].date_printed

C4_Witness ==
    \E i \in 1..Len(lines) : \E j \in 1..Len(lines) :
        /\ i < j
        /\ InSeq(CorrelationTag("e1"), lines[i].tags) /\ ~IsRedacted(lines[i])
        /\ InSeq(CorrelationTag("e1"), lines[j].tags) /\ IsRedacted(lines[j])
        /\ StartsWith(lines[j].message, string_strikethrough(T("hi")))

(***************************************************************************)
(* C5: a redaction whose target matches no unredacted line raises nothing  *)
(* and changes nothing: not the log, the user registry, the roster or the  *)
(* topic, whether or not the censor is in the room's user table.           *)
(***************************************************************************)
C5_MissingTargetIsNoOp ==
    \A e \in RedactionEvents :
        ~HasTarget(lines, e.redaction_id) => Timeline(Cur, e) = Cur

C5_Witness ==
    /\ lines # <<>>
    /\ \E i \in 1..Len(lines) :
            InSeq(CorrelationTag("e1"), lines[i].tags) /\ IsRedacted(lines[i])
    /\ ~HasTarget(lines, "e1")
    /\ "@bob:hs" \notin DOMAIN room_users
    /\ "@alice:hs" \in DOMAIN room_users

(***************************************************************************)
(* C10: a line appended for a Text or Emote message or for a redacted      *)
(* message placeholder carries exactly one correlation tag, the one of the *)
(* event that produced it, and a redaction leaves the correlation tags of  *)
(* every line as they were.                                                *)
(***************************************************************************)
IdTagsOf(line) == SelectSeq(line.tags, LAMBDA t : t \in CorrelationTags)

C10_OneCorrelationTag ==
    /\ \A e \in TextEvents \cup EmoteEvents \cup RedactedMessageEvents :
            LET s == Timeline(Cur, e)
            IN  \/ s.raised /\ s.lines = lines
                \/ /\ Len(s.lines) = Len(lines) + 1
                   /\ SubSeq(s.lines, 1, Len(lines)) = lines
                   /\ IdTagsOf(s.lines[Len(s.lines)]) = << CorrelationTag(e.event_id) >>
    /\ \A e \in RedactionEvents :
            LET s == Timeline(Cur, e)
            IN  \A i \in 1..Len(lines) : IdTagsOf(s.lines[i]) = IdTagsOf(lines[i])
    /\ \A i \in 1..Len(lines) :
            InSeq(SCRIPT_NAME \o "_message", lines[i].tags)
                /\ ~InSeq("self_msg", lines[i].tags)
                => Len(IdTagsOf(lines[i])) = 1

C10_Witness ==
    \E i \in 1..Len(lines) : \E j \in 1..Len(lines) :
        /\ IdTagsOf(lines[i]) = << CorrelationTag("e2") >>
        /\ IsRedacted(lines[i])
        /\ InSeq(SCRIPT_NAME \o "_action", lines[i].tags)
        /\ IdTagsOf(lines[j]) = << CorrelationTag("e1") >>
        /\ lines[j].message = T("hi")

(***************************************************************************)
(* C6 (as claimed): a Join or a Topic event projected in state replay      *)
(* leaves the log as it is, and the same event projected in the timeline   *)
(* appends exactly one line.                                               *)
(***************************************************************************)
LeavesLog(s) == s.lines = lines

AppendsOneLine(s) ==
    Len(s.lines) = Len(lines) + 1 /\ SubSeq(s.lines, 1, Len(lines)) = lines

C6_ReplayFlagGatesLine ==
    \A e \in JoinEvents \cup TopicEvents :
        LeavesLog(State(Cur, e)) /\ AppendsOneLine(Timeline(Cur, e))

(***************************************************************************)
(* C6 (amended): a Topic event, or a Join whose previous membership is     *)
(* absent, "leave" or "invite", leaves the log as it is in state replay    *)
(* and appends exactly one line in the timeline; a Join whose previous     *)
(* membership is anything else leaves the log as it is in both modes.      *)
(***************************************************************************)
PreviousMembership(e) ==
    IF ~e.prev_content.none /\ "membership" \in DOMAIN e.prev_content.dict
    THEN e.prev_content.dict["membership"]
    ELSE "absent"

GenuineJoin(e) == PreviousMembership(e) \in {"absent", "leave", "invite"}

C6_ReplayFlagGatesGenuineJoin ==
    /\ \A e \in TopicEvents \cup {j \in JoinEvents : GenuineJoin(j)} :
            LeavesLog(State(Cur, e)) /\ AppendsOneLine(Timeline(Cur, e))
    /\ \A e \in {j \in JoinEvents : ~GenuineJoin(j)} :
            LeavesLog(State(Cur, e)) /\ LeavesLog(Timeline(Cur, e))

C6_Witness ==
    /\ Len(lines) = 1
    /\ InSeq(SCRIPT_NAME \o "_join", lines[1].tags)
    /\ InSeq("nick_Al", lines[1].tags)
    /\ "alice" \in DOMAIN users
    /\ "alice" \in DOMAIN nicklist

(***************************************************************************)
(* C7: for a membership or a topic event, the projection in state replay   *)
(* and the projection in the timeline agree on everything but the log: the *)
(* user registry, the roster, the room's user table, the topic with its    *)
(* author and timestamp, the short name, and whether an error was raised.  *)
(***************************************************************************)
ButLog(s) == [s EXCEPT !.lines = <<>>]

C7_ReplayFlagChangesOnlyLog ==
    \A e \in MembershipEvents \cup TopicEvents :
        ButLog(State(Cur, e)) = ButLog(Timeline(Cur, e))

C7_Witness ==
    /\ lines = <<>>
    /\ short_name = room_name
    /\ DOMAIN users = {"Al"}
    /\ DOMAIN nicklist = {"Al"}
    /\ DOMAIN room_users = {}

(***************************************************************************)
(* C8 (as claimed): after a Leave event, a part or a kick, the leaving     *)
(* user is in neither the roster nor the user registry; after a Join whose *)
(* previous membership is absent, "leave" or "invite" the user is in both. *)
(***************************************************************************)
NicksOf(user_id) == {n \in DOMAIN users : users[n].host = user_id}

C8_RosterFollowsMembership ==
    /\ \A e \in LeaveEvents : \A s \in {State(Cur, e), Timeline(Cur, e)} :
            \A n \in NicksOf(e.leaving_user) :
                n \notin DOMAIN s.users /\ n \notin DOMAIN s.nicklist
    /\ \A e \in {j \in JoinEvents : GenuineJoin(j)} :
            \A s \in {State(Cur, e), Timeline(Cur, e)} :
                /\ e.display_name \in DOMAIN s.users
                /\ s.users[e.display_name].host = e.sender
                /\ e.display_name \in DOMAIN s.nicklist

(***************************************************************************)
(* C9 (as claimed): a Leave in the timeline appends exactly one line, a    *)
(* part line when the sender is the leaving user and a kick line when it   *)
(* is not, and the line shows the leaving user as the registry held them.  *)
(***************************************************************************)
LeaveClass(e) == IF e.sender = e.leaving_user THEN "part" ELSE "kick"

LeaveLine(st, user, class, date) ==
    LET data == _membership_message(st, user, class)
    IN  [date |-> date, date_printed |-> Now,
         tags |-> _message_tags(user, class),
         prefix |-> SubSeq(data, 1, FirstTab(data) - 1),
         message |-> SubSeq(data, FirstTab(data) + 1, Len(data))]

C9_LeaveLineClass ==
    \A e \in LeaveEvents :
        LET s == Timeline(Cur, e)
        IN  /\ AppendsOneLine(s)
            /\ \A n \in NicksOf(e.leaving_user) :
                    s.lines[Len(s.lines)]
                        = LeaveLine(Cur, users[n], LeaveClass(e),
                                    server_ts_to_weechat(e.timestamp))

(***************************************************************************)
(* The ranks, by the prefix that stands for each.                          *)
(***************************************************************************)
RankOf(p) ==
    CASE p = "&" -> "owner"
      [] p = "@" -> "moderator"
      [] p = "+" -> "voiced"
      [] p = ""  -> "none"

RankOrder(r) ==
    CASE r = "none"      -> 0
      [] r = "voiced"    -> 1
      [] r = "moderator" -> 2
      [] r = "owner"     -> 3

(***************************************************************************)
(* C11: the rank of a power level p, negative values included, is owner if *)
(* p >= 100, moderator if 50 <= p < 100, voiced if 0 < p < 50 and none if  *)
(* p <= 0.                                                                 *)
(***************************************************************************)
C11_RankThresholds ==
    rank_prefix # Unset =>
        /\ (level >= 100 => RankOf(rank_prefix) = "owner")
        /\ (50 <= level /\ level < 100 => RankOf(rank_prefix) = "moderator")
        /\ (0 < level /\ level < 50 => RankOf(rank_prefix) = "voiced")
        /\ (level <= 0 => RankOf(rank_prefix) = "none")

C11_Witness == rank_prefix # Unset /\ level < 0 /\ RankOf(rank_prefix) = "none"

(***************************************************************************)
(* C12: the rank is monotonic in the power level (p <= q implies           *)
(* rank(p) <= rank(q) in the order none < voiced < moderator < owner) and  *)
(* takes the listed values at the listed points.  As stated, rank(99) is   *)
(* voiced; the points of the thresholds give rank(99) = moderator.         *)
(***************************************************************************)
RankMonotonic ==
    \A q \in PowerLevels :
        level <= q => RankOrder(RankOf(rank_prefix)) <= RankOrder(RankOf(_get_prefix(q)))

RankPoints(rank_of_99) ==
    /\ (level = 99 => RankOf(rank_prefix) = rank_of_99)
    /\ (level = 100 => RankOf(rank_prefix) = "owner")
    /\ (level = 50 => RankOf(rank_prefix) = "moderator")
    /\ (level = 49 => RankOf(rank_prefix) = "voiced")
    /\ (level = 0 => RankOf(rank_prefix) = "none")
    /\ (level = 1 => RankOf(rank_prefix) = "voiced")

C12_RankMonotonicWithPoints ==
    rank_prefix # Unset => RankMonotonic /\ RankPoints("voiced")

C12_RankMonotonicWithExactPoints ==
    rank_prefix # Unset => RankMonotonic /\ RankPoints("moderator")

C12_Witness == rank_prefix # Unset /\ level = 99 /\ RankOf(rank_prefix) = "moderator"

(***************************************************************************)
(* C13 (as claimed): for every Text or Emote message event, the body of    *)
(* the appended line is the rendering of the rich text when there is one,  *)
(* and the plain text when the rich text is empty or absent.  The body of  *)
(* an emote line starts with the sender's nick; the text is its end.       *)
(***************************************************************************)
RichOrPlain(e) ==
    IF e.formatted_message # "" THEN to_weechat(e.formatted_message) ELSE T(e.message)

LastLine(s) == s.lines[Len(s.lines)]

C13_BodySelection ==
    \A e \in TextEvents \cup EmoteEvents :
        LET s == Timeline(Cur, e)
        IN  AppendsOneLine(s) =>
                /\ EndsWith(LastLine(s).message, RichOrPlain(e))
                /\ (e.type = "RoomMessageText" => LastLine(s).message = RichOrPlain(e))

(***************************************************************************)
(* C13, Text events alone: the body of the appended line is the rendering  *)
(* of the rich text when there is one and the plain text otherwise.        *)
(***************************************************************************)
C13_TextBodySelection ==
    \A e \in TextEvents :
        LET s == Timeline(Cur, e)
        IN  AppendsOneLine(s) => LastLine(s).message = RichOrPlain(e)

(***************************************************************************)
(* C14 (as claimed): a Text or Emote message, or the placeholder of a      *)
(* redacted message, whose sender is not in the room's user table is       *)
(* projected without an error and appends exactly one line, attributed to  *)
(* a user made from the sender identifier.                                 *)
(***************************************************************************)
C14_UnknownSenderNonFatal ==
    \A e \in TextEvents \cup EmoteEvents \cup RedactedMessageEvents :
        e.sender \notin DOMAIN room_users =>
            LET s == Timeline(Cur, e)
            IN  /\ ~s.raised
                /\ AppendsOneLine(s)
                /\ \/ InSeq("nick_" \o e.sender, LastLine(s).tags)
                   \/ InSeq("nick_" \o shorten_sender(e.sender), LastLine(s).tags)

(***************************************************************************)
(* C15 (as claimed): a redaction that finds its target line while its      *)
(* sender, the censor, is not in the room's user table still completes:    *)
(* the line is rewritten and marked redacted, and the notice names the     *)
(* censor by the raw sender identifier.                                    *)
(***************************************************************************)
C15_CensorFallback ==
    \A e \in RedactionEvents :
        (HasTarget(lines, e.redaction_id) /\ e.sender \notin DOMAIN room_users) =>
            LET i == Target(lines, e.redaction_id)
                s == Timeline(Cur, e)
            IN  /\ ~s.raised
                /\ IsRedacted(s.lines[i])
                /\ EndsWith(s.lines[i].message, RedactionMsg(e.sender, e.reason))

(***************************************************************************)
(* C16 (as claimed): after any Topic event, in state replay and in the     *)
(* timeline alike, the stored topic is the event's topic, the stored topic *)
(* author is the sender's display name (the raw sender identifier when the *)
(* sender is not in the room's user table) and the stored topic timestamp  *)
(* equals the event's timestamp; a line containing the new topic is        *)
(* appended only when is_state is false.                                   *)
(***************************************************************************)
TopicAuthor(e) ==
    IF e.sender \in DOMAIN room_users THEN room_users[e.sender].name ELSE e.sender

TopicStored(s, e, date) ==
    /\ ~s.raised
    /\ s.topic = e.topic
    /\ s.topic_author = TopicAuthor(e)
    /\ s.topic_date = date

TopicLineOnlyInTimeline(replayed, live, e) ==
    /\ LeavesLog(replayed)
    /\ AppendsOneLine(live)
    /\ InSeq([k |-> "text", s |-> e.topic], LastLine(live).message)

C16_TopicStoredWithEventTimestamp ==
    \A e \in TopicEvents :
        LET replayed == State(Cur, e)
            live == Timeline(Cur, e)
        IN  /\ TopicStored(replayed, e, e.timestamp)
            /\ TopicStored(live, e, e.timestamp)
            /\ TopicLineOnlyInTimeline(replayed, live, e)

(***************************************************************************)
(* C16 (amended): as above, with the stored topic timestamp being the      *)
(* event's timestamp converted to the host's whole seconds.                *)
(***************************************************************************)
C16_TopicStoredWithHostTimestamp ==
    \A e \in TopicEvents :
        LET replayed == State(Cur, e)
            live == Timeline(Cur, e)
        IN  /\ TopicStored(replayed, e, server_ts_to_weechat(e.timestamp))
            /\ TopicStored(live, e, server_ts_to_weechat(e.timestamp))
            /\ TopicLineOnlyInTimeline(replayed, live, e)

C16_Witness ==
    /\ topic = "new topic"
    /\ topic_author \in UserIds
    /\ topic_date = 2
    /\ Len(lines) = 2
    /\ InSeq(SCRIPT_NAME \o "_topic", lines[2].tags)
    /\ DOMAIN room_users = {"@alice:hs"}

(***************************************************************************)
(* C17: a Join whose previous membership is absent, "leave" or "invite"    *)
(* registers the user in the registry and in the roster, and appends a     *)
(* "has joined" line only when is_state is false; a Join whose previous    *)
(* membership is anything else appends no line and leaves the registry and *)
(* the roster unchanged.                                                   *)
(***************************************************************************)
Registered(s, e) ==
    /\ ~s.raised
    /\ e.display_name \in DOMAIN s.users
    /\ s.users[e.display_name].nick = e.display_name
    /\ s.users[e.display_name].host = e.sender
    /\ e.display_name \in DOMAIN s.nicklist

HasJoinedLine(s, e) ==
    /\ AppendsOneLine(s)
    /\ InSeq(SCRIPT_NAME \o "_join", LastLine(s).tags)
    /\ InSeq("nick_" \o e.display_name, LastLine(s).tags)
    /\ InSeq([k |-> "text", s |-> "has joined"], LastLine(s).message)

Untouched(s) ==
    /\ ~s.raised
    /\ s.lines = lines
    /\ s.users = users
    /\ s.nicklist = nicklist

C17_JoinGatedByPreviousMembership ==
    \A e \in JoinEvents :
        LET replayed == State(Cur, e)
            live == Timeline(Cur, e)
        IN  IF PreviousMembership(e) \in {"absent", "leave", "invite"}
            THEN /\ Registered(replayed, e)
                 /\ Registered(live, e)
                 /\ LeavesLog(replayed)
                 /\ HasJoinedLine(live, e)
            ELSE Untouched(replayed) /\ Untouched(live)

C17_Witness ==
    /\ lines = <<>>
    /\ DOMAIN users = {"alice", "Al"}
    /\ users["alice"].host = "@alice:hs"
    /\ users["Al"].host = "@bob:hs"
    /\ DOMAIN nicklist = {"alice", "Al"}

(***************************************************************************)
(* C18 (as claimed): the roster group of a user is the group of the user's *)
(* rank: "000|o" for owner, "001|h" for moderator, "002|v" for voiced and  *)
(* "999|..." for none.                                                     *)
(***************************************************************************)
GroupOfRank(r) ==
    CASE r = "owner"     -> "000|o"
      [] r = "moderator" -> "001|h"
      [] r = "voiced"    -> "002|v"
      [] r = "none"      -> "999|..."

C18_GroupOfRank == group_name # Unset => group_name = GroupOfRank(RankOf(rank_prefix))

(***************************************************************************)
(* C18, the ranks other than voiced: owner, moderator and none have their  *)
(* groups.                                                                 *)
(***************************************************************************)
C18_GroupOfRankButVoiced ==
    (group_name # Unset /\ RankOf(rank_prefix) # "voiced") =>
        group_name = GroupOfRank(RankOf(rank_prefix))

(***************************************************************************)
(* C19 (as claimed): after a genuine Join of a user whose power level in   *)
(* the room is p, the user's rank prefix in the registry and the user's    *)
(* group in the roster are the ones of rank(p).                            *)
(***************************************************************************)
RankedAs(s, e, p) ==
    /\ ~s.raised
    /\ e.display_name \in DOMAIN s.users
    /\ s.users[e.display_name].prefix = _get_prefix(p)
    /\ e.display_name \in DOMAIN s.nicklist
    /\ s.nicklist[e.display_name].group = GroupOfRank(RankOf(_get_prefix(p)))

C19_RosterReflectsPowerLevel ==
    \A e \in {j \in JoinEvents : GenuineJoin(j)} :
        /\ RankedAs(State(Cur, e), e, power_levels[e.sender])
        /\ RankedAs(Timeline(Cur, e), e, power_levels[e.sender])

(***************************************************************************)
(* C20 (as claimed): in every state reached by Join and Leave events, for  *)
(* every nick present in the roster, the colour recorded in the roster     *)
(* entry equals the colour stored for that nick in the user registry.      *)
(***************************************************************************)
C20_NoColorDivergence ==
    \A n \in DOMAIN nicklist \cap DOMAIN users : nicklist[n].color = users[n].color

(***************************************************************************)
(* C21 (as claimed): after a name or alias event of the room, delivered    *)
(* through handle_state_event or through handle_timeline_event, the short  *)
(* name of the buffer equals the room's freshly computed display name.     *)
(***************************************************************************)
ShortNameFresh(s) == ~s.raised /\ s.short_name = s.room_name

C21_ShortNameTracksNameChange ==
    \A e \in NameEvents :
        ShortNameFresh(State(Cur, e)) /\ ShortNameFresh(Timeline(Cur, e))

(***************************************************************************)
(* C21, the timeline alone: after a name or alias event delivered through  *)
(* handle_timeline_event the short name equals the room's display name.    *)
(***************************************************************************)
C21_ShortNameTracksTimelineNameChange ==
    \A e \in NameEvents : ShortNameFresh(Timeline(Cur, e))

(***************************************************************************)
(* C22 (as claimed): every line appended for a message whose sender is the *)
(* room's own user, through self_message / self_action or through          *)
(* handle_timeline_event, carries the tags notify_none and no_highlight    *)
(* and does not carry notify_message.                                      *)
(***************************************************************************)
Quiet(tag_list) ==
    /\ InSeq("notify_none", tag_list)
    /\ InSeq("no_highlight", tag_list)
    /\ ~InSeq("notify_message", tag_list)

QuietIfAppended(s) == AppendsOneLine(s) => Quiet(LastLine(s).tags)

C22_SelfOriginatedQuiet ==
    /\ \A e \in {m \in TextEvents \cup EmoteEvents : m.sender = OwnUserId} :
            QuietIfAppended(Timeline(Cur, e))
    /\ \A m \in OwnMessages :
            QuietIfAppended(self_message(Cur, m)) /\ QuietIfAppended(self_action(Cur, m))

(***************************************************************************)
(* C22, self_message and self_action alone: the line they append carries   *)
(* notify_none and no_highlight and not notify_message.                    *)
(***************************************************************************)
C22_SelfMessageQuiet ==
    \A m \in OwnMessages :
        QuietIfAppended(self_message(Cur, m)) /\ QuietIfAppended(self_action(Cur, m))

(***************************************************************************)
(* C23: from any reachable state, applying the same Join event or the same *)
(* Leave event twice in succession leaves the user registry and the roster *)
(* as they are after applying it once, in state replay and in the          *)
(* timeline.                                                               *)
(***************************************************************************)
RegistryAndRoster(s) == <<s.users, s.nicklist>>

SameAfterTwice(once, twice) ==
    /\ ~once.raised
    /\ ~twice.raised
    /\ RegistryAndRoster(twice) = RegistryAndRoster(once)

C23_MembershipIdempotent ==
    \A e \in JoinEvents \cup LeaveEvents :
        LET replayed == State(Cur, e)
            live == Timeline(Cur, e)
        IN  /\ SameAfterTwice(replayed, State(replayed, e))
            /\ SameAfterTwice(live, Timeline(live, e))

C23_Witness ==
    /\ DOMAIN users = {"Al"}
    /\ users["Al"].host = "@alice:hs"
    /\ DOMAIN nicklist = {"Al"}
    /\ DOMAIN room_users = {"@alice:hs", "@bob:hs"}

(***************************************************************************)
(* C24: in every reachable state the nicks of the roster (the nicklist)    *)
(* are the keys of the buffer's user registry.                             *)
(***************************************************************************)
C24_RosterNicksAreRegistryKeys == DOMAIN nicklist = DOMAIN users

C24_Witness ==
    /\ DOMAIN users = {"Al"}
    /\ DOMAIN nicklist = {"Al"}
    /\ Len(lines) = 1
    /\ InSeq(SCRIPT_NAME \o "_leave", lines[1].tags)
    /\ InSeq("nick_alice", lines[1].tags)

(***************************************************************************)
(* C25: a line appended for a membership event, a topic change or a        *)
(* message the user sent (self_message / self_action) carries no           *)
(* correlation tag, and no redaction event, whatever its target, changes   *)
(* the message or the tags of such a line.                                 *)
(***************************************************************************)
UncorrelatedClasses ==
    {SCRIPT_NAME \o "_join", SCRIPT_NAME \o "_leave", SCRIPT_NAME \o "_kick",
     SCRIPT_NAME \o "_invite", SCRIPT_NAME \o "_topic", "self_msg"}

OfUncorrelatedClass(line) == \E t \in UncorrelatedClasses : InSeq(t, line.tags)

C25_UncorrelatedLinesImmune ==
    /\ \A i \in 1..Len(lines) :
            OfUncorrelatedClass(lines[i]) =>
                \A t \in CorrelationTags : ~InSeq(t, lines[i].tags)
    /\ \A e \in RedactionEvents :
            LET s == Timeline(Cur, e)
            IN  /\ Len(s.lines) = Len(lines)
                /\ \A i \in 1..Len(lines) :
                        OfUncorrelatedClass(lines[i]) =>
                            /\ s.lines[i].message = lines[i].message
                            /\ s.lines[i].tags = lines[i].tags

C25_Witness ==
    /\ Len(lines) = 2
    /\ InSeq(SCRIPT_NAME \o "_join", lines[1].tags)
    /\ IsRedacted(lines[2])
    /\ redaction_type = "DELETE"

====
